---- MODULE Spec2Model ----
(***************************************************************************)
(* Model of the ServerMonitor XML-RPC client (modules/ServerMonitor.py):   *)
(* construction with its input validation and channel URI, and the         *)
(* operations get_all_process_info, start_process, stop_process and        *)
(* restart_process, with the remote supervisor as a nondeterministic peer. *)
(*                                                                         *)
(* Python strings are sequences of one-character strings, so that          *)
(* re.match, slicing and f-string concatenation are computed and not       *)
(* assumed.  An optional string (str or None) is a record.                 *)
(***************************************************************************)
EXTENDS Integers, Sequences, FiniteSets, TLC

VARIABLES
    ctor,       \* the construction: phase, arguments, exception raised
    server,     \* self.server: the URI the ServerProxy was built with
    wire,       \* the RPCs of every caller's running (or last) call, in issue order
    pc,         \* per caller: position inside the running operation
    frame,      \* per caller: the running (or last) operation and its argument
    outcome,    \* per caller: what the running (or last) operation returned/raised
    logs,       \* per caller: level of each log record of the operation
    ctorLogs,   \* level of each log record written by __init__
    bpc,                \* the bot: position in the handling of the current message
    author_is_member,   \* ctx.author is a guild Member (with .roles), not a DM User
    author_roles,       \* names of ctx.author.roles
    subcommand_passed,  \* ctx.subcommand_passed: the word after !gamemanager
    process_arg,        \* the restart argument process_name: the word after the subcommand
    command,            \* ctx.command: the command being prepared or run
    exception,          \* the exception raised while handling the message
    ran,                \* the command callbacks whose body ran for the message
    replies,            \* what ctx.send sent for the message: <<sender, text>>
    reactions           \* number of ctx.message.add_reaction calls for the message

clientVars == <<ctor, server, wire, pc, frame, outcome, logs, ctorLogs>>
botVars == <<bpc, author_is_member, author_roles, subcommand_passed, process_arg,
             command, exception, ran, replies, reactions>>
vars == <<clientVars, botVars>>

Callers == {1, 2}

\* ------------------------------------------------------- python strings
None   == [isNone |-> TRUE,  str |-> <<>>]
Str(s) == [isNone |-> FALSE, str |-> s]

HTTP  == <<"h", "t", "t", "p", ":", "/", "/">>
HTTPS == <<"h", "t", "t", "p", "s", ":", "/", "/">>

\* s[k::]
Slice(s, k) == SubSeq(s, k + 1, Len(s))

\* re.match(prefix, s) for a literal prefix: anchored at the start of s
StartsWith(s, prefix) ==
    /\ Len(s) >= Len(prefix)
    /\ SubSeq(s, 1, Len(prefix)) = prefix

\* A bug: re.search in place of re.match, the pattern found anywhere in s.
re_search_http(s) ==
    \E i \in 0..Len(s) : StartsWith(Slice(s, i), HTTP) \/ StartsWith(Slice(s, i), HTTPS)

\* re.match(re.compile(r"http(s?)://"), s)
re_match_http(s) == StartsWith(s, HTTP) \/ StartsWith(s, HTTPS)

\* ------------------------------------------------------------ exceptions
NoExc == [type |-> "-", msg |-> "-", origin |-> "-"]
Exc(t, m, o) == [type |-> t, msg |-> m, origin |-> o]

\* len(x) of an optional string: None has no len()
LenRaises(x) == x.isNone

\* ------------------------------------------------------------ __init__
\* `(len(x) == 0) or x is None`, then `raise ValueError(msg)`: len() is evaluated
\* first, so None raises TypeError before `x is None` is reached.
NotValid(x, msg) ==
    IF LenRaises(x) THEN Exc("TypeError", "object of type 'NoneType' has no len()", "__init__")
    ELSE IF Len(x.str) = 0 THEN Exc("ValueError", msg, "__init__")
    ELSE NoExc

MsgBaseUrl  == "The value provided for 'base_url' is not valid."
MsgScheme   == "The value provided for 'base_url' does not begin with http:// or https://"
MsgEndpoint == "The value provided for 'api_endpoint' is not valid."
MsgUser     == "The value provided for 'api_user' is not valid."
MsgPwd      == "The value provided for 'api_pwd' is not valid."

NotHttp(b) ==
    IF ~re_match_http(b.str) THEN Exc("ValueError", MsgScheme, "__init__") ELSE NoExc

\* A bug: api_endpoint validated before the scheme of base_url.
CtorChecks_swapped(b, e, u, p) ==
    IF NotValid(b, MsgBaseUrl) # NoExc THEN [check |-> 1, exc |-> NotValid(b, MsgBaseUrl)]
    ELSE IF NotValid(e, MsgEndpoint) # NoExc THEN [check |-> 3, exc |-> NotValid(e, MsgEndpoint)]
    ELSE IF NotHttp(b) # NoExc THEN [check |-> 2, exc |-> NotHttp(b)]
    ELSE IF NotValid(u, MsgUser) # NoExc THEN [check |-> 4, exc |-> NotValid(u, MsgUser)]
    ELSE IF NotValid(p, MsgPwd) # NoExc THEN [check |-> 5, exc |-> NotValid(p, MsgPwd)]
    ELSE [check |-> 0, exc |-> NoExc]

\* The five validations of __init__, in program order: the number of the first
\* that raises (0: none raises) and the exception it raises.
CtorChecks(b, e, u, p) ==
    IF NotValid(b, MsgBaseUrl) # NoExc THEN [check |-> 1, exc |-> NotValid(b, MsgBaseUrl)]
    ELSE IF NotHttp(b) # NoExc THEN [check |-> 2, exc |-> NotHttp(b)]
    ELSE IF NotValid(e, MsgEndpoint) # NoExc THEN [check |-> 3, exc |-> NotValid(e, MsgEndpoint)]
    ELSE IF NotValid(u, MsgUser) # NoExc THEN [check |-> 4, exc |-> NotValid(u, MsgUser)]
    ELSE IF NotValid(p, MsgPwd) # NoExc THEN [check |-> 5, exc |-> NotValid(p, MsgPwd)]
    ELSE [check |-> 0, exc |-> NoExc]

\* A bug: the http:// length stripped whatever the scheme.
init_xmlrpc_server_strip7(base_url, api_endpoint, api_user, api_pwd) ==
    LET remote_hostname == Slice(base_url, 7)
        http_meth == IF StartsWith(base_url, HTTPS) THEN HTTPS ELSE HTTP
    IN  http_meth \o api_user \o <<":">> \o api_pwd \o <<"@">> \o remote_hostname \o api_endpoint

\* __init_xmlrpc_server__: the uri handed to ServerProxy.  It is called with
\* four validated str values, for which nothing in its try block raises
\* TypeError: the `except TypeError` clause (returning None) is never taken.
init_xmlrpc_server(base_url, api_endpoint, api_user, api_pwd) ==
    LET https == StartsWith(base_url, HTTPS)
        remote_hostname == IF https THEN Slice(base_url, 8) ELSE Slice(base_url, 7)
        http_meth == IF https THEN HTTPS ELSE HTTP
    IN  http_meth \o api_user \o <<":">> \o api_pwd \o <<"@">> \o remote_hostname \o api_endpoint

NoServer == <<>>

\* The arguments construction is tried with.
Prefixes == {<<>>, HTTP, HTTPS, <<"h", "t", "t", "p", ":", "/">>,
             <<"f", "t", "p", ":", "/", "/">>, <<"x">> \o HTTP, <<"H", "T", "T", "P", ":", "/", "/">>}
Hosts == {<<>>, <<"1", "0", ".", "0", ".", "0", ".", "5", ":", "9", "0", "0", "1">>}
BaseUrls  == {None} \cup {Str(pre \o h) : pre \in Prefixes, h \in Hosts}
Endpoints == {None, Str(<<>>), Str(<<"/", "R", "P", "C", "2">>)}
Users     == {None, Str(<<>>), Str(<<"a", "d", "m", "i", "n">>)}
Passwords == {None, Str(<<>>), Str(<<"s", "e", "c", "r", "e", "t">>)}

NoArgs == [base_url |-> None, api_endpoint |-> None, api_user |-> None, api_pwd |-> None]

\* ServerMonitor(base_url, api_endpoint, api_user, api_pwd)
Construct(b, e, u, p) ==
    /\ ctor.phase = "new"
    /\ LET chk == CtorChecks(b, e, u, p)
           args == [base_url |-> b, api_endpoint |-> e, api_user |-> u, api_pwd |-> p]
       IN  IF chk.check # 0
           THEN /\ ctor' = [check |-> chk.check, exc |-> chk.exc, phase |-> "failed", args |-> args]
                /\ server' = NoServer
                /\ ctorLogs' = <<"info">>
           ELSE /\ ctor' = [check |-> 0, exc |-> NoExc, phase |-> "ok", args |-> args]
                /\ server' = init_xmlrpc_server(b.str, e.str, u.str, p.str)
                /\ ctorLogs' = <<"info", "debug", "debug", "debug">>
    /\ UNCHANGED <<wire, pc, frame, outcome, logs, botVars>>

\* ------------------------------------------------------ the remote peer
\* One RPC on the channel: supervisor.<method>(name, True) and what came back.
Rpc(method, name, resp) == [method |-> method, name |-> name, resp |-> resp, wait |-> TRUE]

\* What one RPC can come back with: a result (True, False, a list), an
\* xmlrpc.client.ProtocolError (HTTP status 401 or another one) or another
\* exception of the transport (OSError: connection refused, timeout).
BoolResponses == {"True", "False", "ProtocolError401", "ProtocolError500", "OSError"}
ListResponses == {"List", "ProtocolError401", "ProtocolError500", "OSError"}
IsProtocolError(resp) == resp \in {"ProtocolError401", "ProtocolError500"}
Truthy(resp) == resp \in {"True", "List"}

\* What a method call did: the RPCs it issued, the levels it logged, and
\* whether it returned (value) or raised (exc).
Returned(issued, lg, result) ==
    [logs |-> lg, exc |-> NoExc, calls |-> issued, status |-> "returned", value |-> result]
Raised(issued, lg, error) ==
    [logs |-> lg, exc |-> error, calls |-> issued, status |-> "raised", value |-> "-"]

MsgInvalid      == "The value provided for 'process_name: str' was invalid"
MsgUnauthorized == "401 - Unauthorized"
MsgGeneric      == "ServerMonitor encountered an error"

\* ------------------------------------------------ get_all_process_info
get_all_process_info(resp) ==
    LET issued == <<[method |-> "supervisor.getAllProcessInfo", name |-> None, resp |-> resp, wait |-> FALSE]>>
    IN  IF IsProtocolError(resp)
        THEN Raised(issued, <<"critical", "critical">>,
                    Exc("ServerMonitorError", MsgUnauthorized, "get_all_process_info"))
        ELSE IF resp = "List"
        THEN Returned(issued, <<"info">>, resp)
        ELSE Raised(issued, <<"error", "error">>,
                    Exc("ServerMonitorError", MsgGeneric, "get_all_process_info"))

\* ------------------------------------------------------- start_process
\* A bug: the result returned without the `if result:` test.
start_process_no_fault(process_name, resp) ==
    IF LenRaises(process_name)
    THEN Raised(<<>>, <<"error", "error">>, Exc("ServerMonitorError", MsgGeneric, "start_process"))
    ELSE IF Len(process_name.str) = 0
    THEN Raised(<<>>, <<"error">>, Exc("ServerMonitorError", MsgInvalid, "start_process"))
    ELSE LET issued == <<Rpc("supervisor.startProcess", process_name, resp)>>
         IN  IF IsProtocolError(resp)
             THEN Raised(issued, <<"critical", "critical">>,
                         Exc("ServerMonitorError", MsgUnauthorized, "start_process"))
             ELSE IF resp \in {"True", "False"}
             THEN Returned(issued, <<"info">>, resp)
             ELSE Raised(issued, <<"error", "error">>,
                         Exc("ServerMonitorError", MsgGeneric, "start_process"))

\* try: len(process_name) == 0 -> ValueError; the RPC; a falsy result -> Exception.
\* except ValueError / ProtocolError / Exception, each raising ServerMonitorError.
\* len(None) raises TypeError, which only `except Exception` catches.
start_process(process_name, resp) ==
    IF LenRaises(process_name)
    THEN Raised(<<>>, <<"error", "error">>, Exc("ServerMonitorError", MsgGeneric, "start_process"))
    ELSE IF Len(process_name.str) = 0
    THEN Raised(<<>>, <<"error">>, Exc("ServerMonitorError", MsgInvalid, "start_process"))
    ELSE LET issued == <<Rpc("supervisor.startProcess", process_name, resp)>>
         IN  IF IsProtocolError(resp)
             THEN Raised(issued, <<"critical", "critical">>,
                         Exc("ServerMonitorError", MsgUnauthorized, "start_process"))
             ELSE IF Truthy(resp)
             THEN Returned(issued, <<"info">>, resp)
             ELSE Raised(issued, <<"error", "error">>,
                         Exc("ServerMonitorError", MsgGeneric, "start_process"))

\* -------------------------------------------------------- stop_process
\* A bug: no `except ProtocolError` clause, the generic handler takes it.
stop_process_no_protocol_clause(process_name, resp) ==
    IF LenRaises(process_name)
    THEN Raised(<<>>, <<"error", "error">>, Exc("ServerMonitorError", MsgGeneric, "stop_process"))
    ELSE IF Len(process_name.str) = 0
    THEN Raised(<<>>, <<"error">>, Exc("ServerMonitorError", MsgInvalid, "stop_process"))
    ELSE LET issued == <<Rpc("supervisor.stopProcess", process_name, resp)>>
         IN  IF Truthy(resp)
             THEN Returned(issued, <<"info">>, resp)
             ELSE Raised(issued, <<"error", "error">>,
                         Exc("ServerMonitorError", MsgGeneric, "stop_process"))

\* The same body as start_process around supervisor.stopProcess.
stop_process(process_name, resp) ==
    IF LenRaises(process_name)
    THEN Raised(<<>>, <<"error", "error">>, Exc("ServerMonitorError", MsgGeneric, "stop_process"))
    ELSE IF Len(process_name.str) = 0
    THEN Raised(<<>>, <<"error">>, Exc("ServerMonitorError", MsgInvalid, "stop_process"))
    ELSE LET issued == <<Rpc("supervisor.stopProcess", process_name, resp)>>
         IN  IF IsProtocolError(resp)
             THEN Raised(issued, <<"critical", "critical">>,
                         Exc("ServerMonitorError", MsgUnauthorized, "stop_process"))
             ELSE IF Truthy(resp)
             THEN Returned(issued, <<"info">>, resp)
             ELSE Raised(issued, <<"error", "error">>,
                         Exc("ServerMonitorError", MsgGeneric, "stop_process"))

\* ----------------------------------------------------- restart_process
Continue(issued, lg) ==
    [logs |-> lg, exc |-> NoExc, calls |-> issued, status |-> "continue", value |-> "-"]

\* A bug: the failure of stop_process swallowed, start_process run anyway.
restart_process_stop_swallowed(process_name, resp) ==
    IF LenRaises(process_name)
    THEN Raised(<<>>, <<>>,
                Exc("TypeError", "object of type 'NoneType' has no len()", "restart_process"))
    ELSE IF Len(process_name.str) = 0
    THEN Raised(<<>>, <<"error">>, Exc("ServerMonitorError", MsgInvalid, "restart_process"))
    ELSE LET r == stop_process(process_name, resp)
         IN  Continue(r.calls, r.logs)

\* restart_process up to and including self.stop_process(process_name).
\* len(None) raises TypeError, which neither `except ValueError` nor
\* `except ServerMonitorError` catches: it leaves restart_process as it is.
restart_process_stop(process_name, resp) ==
    IF LenRaises(process_name)
    THEN Raised(<<>>, <<>>,
                Exc("TypeError", "object of type 'NoneType' has no len()", "restart_process"))
    ELSE IF Len(process_name.str) = 0
    THEN Raised(<<>>, <<"error">>, Exc("ServerMonitorError", MsgInvalid, "restart_process"))
    ELSE LET r == stop_process(process_name, resp)
         IN  IF r.status = "returned"
             THEN Continue(r.calls, r.logs)
             ELSE Raised(r.calls, r.logs \o <<"error", "error">>, r.exc)

\* A bug: True returned whatever start_process did.
restart_process_start_unchecked(process_name, resp) ==
    LET r == start_process(process_name, resp)
    IN  Returned(r.calls, r.logs \o <<"info">>, "True")

\* A bug: start_process tried a second time when it fails.
restart_process_start_retried(process_name, resp) ==
    LET r == start_process(process_name, resp)
    IN  IF r.status = "returned"
        THEN Returned(r.calls, r.logs \o <<"info">>, "True")
        ELSE Raised(r.calls \o r.calls, r.logs \o r.logs \o <<"error", "error">>, r.exc)

\* restart_process from self.start_process(process_name) to its end.
restart_process_start(process_name, resp) ==
    LET r == start_process(process_name, resp)
    IN  IF r.status = "returned"
        THEN Returned(r.calls, r.logs \o <<"info">>, "True")
        ELSE Raised(r.calls, r.logs \o <<"error", "error">>, r.exc)

\* ------------------------------------------------------------- callers
ProcessNames == {None, Str(<<>>), Str(<<"v">>)}

NoFrame   == [name |-> None, op |-> "-"]
NoOutcome == [exc |-> NoExc, status |-> "-", value |-> "-"]

\* The RPCs in r, as caller c's method op issued them.
OnWire(c, op, r) ==
    [i \in 1..Len(r.calls) |-> [op |-> op, caller |-> c, call |-> r.calls[i]]]

\* A bug: a client-wide lock held across restart_process.
Enter_locked(c, op, name, r) ==
    /\ ctor.phase = "ok"
    /\ pc[c] = "idle"
    /\ \A d \in Callers : pc[d] # "restart_start"
    /\ frame' = [frame EXCEPT ![c] = [name |-> name, op |-> op]]
    /\ wire' = SelectSeq(wire, LAMBDA w : w.caller # c) \o OnWire(c, op, r)
    /\ logs' = [logs EXCEPT ![c] = r.logs]
    /\ outcome' = [outcome EXCEPT ![c] = [exc |-> r.exc, status |-> r.status, value |-> r.value]]
    /\ pc' = [pc EXCEPT ![c] = IF r.status = "continue" THEN "restart_start" ELSE "idle"]
    /\ UNCHANGED <<ctor, server, ctorLogs, botVars>>

\* Caller c enters method op with argument name and runs it up to its first
\* return, raise or (restart_process) the end of its first RPC.  The record
\* of c's previous call is dropped from wire.
Enter(c, op, name, r) ==
    /\ ctor.phase = "ok"
    /\ pc[c] = "idle"
    /\ frame' = [frame EXCEPT ![c] = [name |-> name, op |-> op]]
    /\ wire' = SelectSeq(wire, LAMBDA w : w.caller # c) \o OnWire(c, op, r)
    /\ logs' = [logs EXCEPT ![c] = r.logs]
    /\ outcome' = [outcome EXCEPT ![c] = [exc |-> r.exc, status |-> r.status, value |-> r.value]]
    /\ pc' = [pc EXCEPT ![c] = IF r.status = "continue" THEN "restart_start" ELSE "idle"]
    /\ UNCHANGED <<ctor, server, ctorLogs, botVars>>

ListProcesses(c) ==
    \E resp \in ListResponses :
        Enter(c, "get_all_process_info", None, get_all_process_info(resp))

Start(c, name) ==
    \E resp \in BoolResponses :
        Enter(c, "start_process", name, start_process(name, resp))

Stop(c, name) ==
    \E resp \in BoolResponses :
        Enter(c, "stop_process", name, stop_process(name, resp))

RestartStop(c, name) ==
    \E resp \in BoolResponses :
        Enter(c, "restart_process", name, restart_process_stop(name, resp))

RestartStart(c) ==
    /\ pc[c] = "restart_start"
    /\ \E resp \in BoolResponses :
        LET r == restart_process_start(frame[c].name, resp)
        IN  /\ wire' = wire \o OnWire(c, frame[c].op, r)
            /\ logs' = [logs EXCEPT ![c] = logs[c] \o r.logs]
            /\ outcome' = [outcome EXCEPT ![c] = [exc |-> r.exc, status |-> r.status, value |-> r.value]]
    /\ pc' = [pc EXCEPT ![c] = "idle"]
    /\ UNCHANGED <<ctor, server, ctorLogs, frame, botVars>>

\* ================================================== the discord bot
\* discord_game_manager_bot.py: the !gamemanager group, its subcommands and
\* their error handlers, run by discord.ext.commands: Group.invoke prepares
\* the group (its checks), runs its callback, then invokes the subcommand,
\* which prepares (its own checks) and runs its callback; a CommandError
\* raised on the way goes to the error handler of ctx.command, any other
\* exception raised by a check leaves the dispatch unhandled.
StatusRole  == "Bot Manager - Status Permission"
RestartRole == "Bot Manager - Restart Permission"
OtherRole   == "@everyone"

\* A bug: the restart check accepting the status role as well.
has_gamemanager_restart_role_any(is_member, roles) ==
    IF ~is_member THEN "AttributeError"
    ELSE IF roles \cap {StatusRole, RestartRole} = {} THEN "MissingRole"
    ELSE "pass"

\* The three check predicates: "pass", or the exception the predicate raises.
\* ctx.author.roles is an attribute of Member only.
has_a_gamemanager_role(is_member, roles) ==
    IF ~is_member THEN "AttributeError"
    ELSE IF roles \cap {StatusRole, RestartRole} = {} THEN "MissingAnyRole"
    ELSE "pass"

has_gamemanager_restart_role(is_member, roles) ==
    IF ~is_member THEN "AttributeError"
    ELSE IF roles \cap {RestartRole} = {} THEN "MissingRole"
    ELSE "pass"

has_gamemanager_status_role(is_member, roles) ==
    IF ~is_member THEN "AttributeError"
    ELSE IF roles \cap {StatusRole} = {} THEN "MissingRole"
    ELSE "pass"

\* gamemanager.all_commands
all_commands == {"restart", "status", "help"}

NoWord == "-"
Subcommands == {NoWord, "restart", "status", "help", "view"}
ProcessArgs == {NoWord, "valheim-server"}
RoleSets == SUBSET {StatusRole, RestartRole, OtherRole}

HelpText == "The game manager bot is aimed at assisting the gamers"
WillRestart == "will be restarted."
Restarted == "has been restarted successfully."
StatusText == "status of processes"
NiceTry == "Nice try. This command isn't supported"

\* The check failed with exception e while preparing ctx.command: a
\* CommandError goes to the command's error handler, anything else escapes.
CheckFailed(e) ==
    /\ exception' = e
    /\ bpc' = IF e = "AttributeError" THEN "idle" ELSE "error"
    /\ UNCHANGED <<ran, replies>>

\* A message "!gamemanager [subcommand] [process_name]" arrives.
on_message(is_member, roles, sub, arg) ==
    /\ bpc = "idle"
    /\ bpc' = "group"
    /\ author_is_member' = is_member
    /\ author_roles' = roles
    /\ subcommand_passed' = sub
    /\ process_arg' = arg
    /\ command' = "gamemanager"
    /\ exception' = NoWord
    /\ ran' = {}
    /\ replies' = <<>>
    /\ reactions' = 0
    /\ UNCHANGED clientVars

\* @bot.group() @has_a_gamemanager_role() async def gamemanager(ctx)
gamemanager ==
    /\ bpc = "group"
    /\ LET chk == has_a_gamemanager_role(author_is_member, author_roles)
       IN  IF chk # "pass" THEN CheckFailed(chk)
           ELSE IF subcommand_passed = NoWord
           THEN /\ ran' = ran \cup {"gamemanager", "help"}
                /\ replies' = Append(replies, <<"help", HelpText>>)
                /\ bpc' = "idle"
                /\ UNCHANGED exception
           ELSE IF subcommand_passed \notin all_commands
           THEN /\ ran' = ran \cup {"gamemanager"}
                /\ exception' = "CommandNotFound"
                /\ bpc' = "error"
                /\ UNCHANGED replies
           ELSE /\ ran' = ran \cup {"gamemanager"}
                /\ bpc' = "sub"
                /\ UNCHANGED <<exception, replies>>
    /\ UNCHANGED <<author_is_member, author_roles, subcommand_passed, process_arg,
                   command, reactions, clientVars>>

\* @gamemanager.command("help") @has_a_gamemanager_role() async def help(ctx)
help ==
    /\ bpc = "sub" /\ subcommand_passed = "help"
    /\ command' = "help"
    /\ LET chk == has_a_gamemanager_role(author_is_member, author_roles)
       IN  IF chk # "pass" THEN CheckFailed(chk)
           ELSE /\ ran' = ran \cup {"help"}
                /\ replies' = Append(replies, <<"help", HelpText>>)
                /\ bpc' = "idle"
                /\ UNCHANGED exception
    /\ UNCHANGED <<author_is_member, author_roles, subcommand_passed, process_arg,
                   reactions, clientVars>>

\* @gamemanager.command("status") @has_gamemanager_status_role() async def status(ctx)
status ==
    /\ bpc = "sub" /\ subcommand_passed = "status"
    /\ command' = "status"
    /\ LET chk == has_gamemanager_status_role(author_is_member, author_roles)
       IN  IF chk # "pass" THEN CheckFailed(chk)
           ELSE /\ ran' = ran \cup {"status"}
                /\ replies' = Append(replies, <<"status", StatusText>>)
                /\ bpc' = "idle"
                /\ UNCHANGED exception
    /\ UNCHANGED <<author_is_member, author_roles, subcommand_passed, process_arg,
                   reactions, clientVars>>

\* @gamemanager.command("restart") @has_gamemanager_restart_role()
\* async def restart(ctx, process_name: str = None), up to its first ctx.send
restart ==
    /\ bpc = "sub" /\ subcommand_passed = "restart"
    /\ command' = "restart"
    /\ LET chk == has_gamemanager_restart_role(author_is_member, author_roles)
       IN  IF chk # "pass" THEN CheckFailed(chk)
           ELSE IF process_arg = NoWord
           THEN /\ ran' = ran \cup {"restart"}
                /\ exception' = "BadArgument"
                /\ bpc' = "error"
                /\ UNCHANGED replies
           ELSE /\ ran' = ran \cup {"restart"}
                /\ replies' = Append(replies, <<"restart", WillRestart>>)
                /\ bpc' = "restart_sent"
                /\ UNCHANGED exception
    /\ UNCHANGED <<author_is_member, author_roles, subcommand_passed, process_arg,
                   reactions, clientVars>>

\* restart, its second ctx.send: no ServerMonitor call stands between the two.
restart_reply ==
    /\ bpc = "restart_sent"
    /\ replies' = Append(replies, <<"restart", Restarted>>)
    /\ bpc' = "idle"
    /\ UNCHANGED <<author_is_member, author_roles, subcommand_passed, process_arg,
                   command, exception, ran, reactions, clientVars>>

\* The isinstance tests of gamemanager_error, restart_error, status_error and
\* help_error: does the handler of command cmd send a message for exception e.
HandlerSends(cmd, e) ==
    \/ cmd = "gamemanager" /\ e \in {"MissingAnyRole", "CommandNotFound"}
    \/ cmd = "restart" /\ e \in {"MissingRole", "BadArgument"}
    \/ cmd = "status" /\ e = "MissingRole"
    \/ cmd = "help" /\ e = "MissingAnyRole"

\* Command.dispatch_error: the error handler registered for ctx.command.
dispatch_error ==
    /\ bpc = "error"
    /\ replies' = IF HandlerSends(command, exception)
                  THEN Append(replies, <<command \o "_error",
                                         IF exception = "CommandNotFound" THEN NiceTry ELSE exception>>)
                  ELSE replies
    /\ reactions' = IF command = "gamemanager" /\ exception = "CommandNotFound"
                    THEN reactions + 3 ELSE reactions
    /\ bpc' = "idle"
    /\ UNCHANGED <<author_is_member, author_roles, subcommand_passed, process_arg,
                   command, exception, ran, clientVars>>

\* ------------------------------------------------------- specification
Init ==
    /\ ctor = [check |-> 0, exc |-> NoExc, phase |-> "new", args |-> NoArgs]
    /\ server = NoServer
    /\ wire = <<>>
    /\ pc = [c \in Callers |-> "idle"]
    /\ frame = [c \in Callers |-> NoFrame]
    /\ outcome = [c \in Callers |-> NoOutcome]
    /\ logs = [c \in Callers |-> <<>>]
    /\ ctorLogs = <<>>
    /\ bpc = "idle"
    /\ author_is_member = FALSE
    /\ author_roles = {}
    /\ subcommand_passed = NoWord
    /\ process_arg = NoWord
    /\ command = NoWord
    /\ exception = NoWord
    /\ ran = {}
    /\ replies = <<>>
    /\ reactions = 0

\* run_server_monitor.py: the client and its callers.
Next ==
    \/ \E b \in BaseUrls, e \in Endpoints, u \in Users, p \in Passwords : Construct(b, e, u, p)
    \/ \E c \in Callers : ListProcesses(c)
    \/ \E c \in Callers, name \in ProcessNames : Start(c, name)
    \/ \E c \in Callers, name \in ProcessNames : Stop(c, name)
    \/ \E c \in Callers, name \in ProcessNames : RestartStop(c, name)
    \/ \E c \in Callers : RestartStart(c)

Spec == Init /\ [][Next]_vars

\* discord_game_manager_bot.py: the bot, which constructs no ServerMonitor.
NextBot ==
    \/ \E m \in BOOLEAN, roles \in RoleSets, sub \in Subcommands, arg \in ProcessArgs :
          on_message(m, roles, sub, arg)
    \/ gamemanager
    \/ help
    \/ status
    \/ restart
    \/ restart_reply
    \/ dispatch_error

SpecBot == Init /\ [][NextBot]_vars

\* ================================================================ claims
\* The failure kinds of the error taxonomy, read off the exception raised.
Kind(exc) ==
    IF exc.type = "ValueError" THEN "InvalidArgument"
    ELSE IF exc.type = "ServerMonitorError" /\ exc.msg = MsgInvalid THEN "InvalidArgument"
    ELSE IF exc.type = "ServerMonitorError" /\ exc.msg = MsgUnauthorized THEN "Unauthorized"
    ELSE IF exc.type = "ServerMonitorError" /\ exc.msg = MsgGeneric THEN "MonitorError"
    ELSE "none"

\* The RPCs issued by caller c's current (or last) invocation, in issue order.
InvCalls(c) ==
    LET mine == SelectSeq(wire, LAMBDA w : w.caller = c)
    IN  [i \in 1..Len(mine) |-> mine[i].call]

Finished(c, op) == pc[c] = "idle" /\ frame[c].op = op
NonEmpty(name) == ~name.isNone /\ Len(name.str) > 0
StopRpc  == "supervisor.stopProcess"
StartRpc == "supervisor.startProcess"

\* C1: in restart_process(p), p non-empty, supervisor.startProcess(p) is issued
\* only after supervisor.stopProcess(p) of the same invocation came back truthy;
\* when the stop step fails no startProcess is issued and restart_process raises
\* the very exception stop_process raised.
C1_StopBeforeStart ==
    /\ \A i \in 1..Len(wire) :
        (wire[i].op = "restart_process" /\ wire[i].call.method = StartRpc)
        => \E j \in 1..(i - 1) :
             /\ wire[j].caller = wire[i].caller
             /\ wire[j].call.method = StopRpc
             /\ wire[j].call.name = wire[i].call.name
             /\ Truthy(wire[j].call.resp)
    /\ \A c \in Callers :
        (/\ frame[c].op = "restart_process" /\ NonEmpty(frame[c].name)
         /\ Len(InvCalls(c)) >= 1 /\ ~Truthy(InvCalls(c)[1].resp))
        => /\ pc[c] = "idle"
           /\ InvCalls(c) = <<Rpc(StopRpc, frame[c].name, InvCalls(c)[1].resp)>>
           /\ outcome[c].status = "raised"
           /\ outcome[c].exc = stop_process(frame[c].name, InvCalls(c)[1].resp).exc
           /\ outcome[c].exc.origin = "stop_process"

C1_Witness ==
    \E c, d \in Callers :
        /\ Finished(c, "restart_process") /\ Len(InvCalls(c)) = 1
        /\ InvCalls(c)[1].resp = "False" /\ outcome[c].status = "raised"
        /\ frame[d].op = "restart_process" /\ Len(InvCalls(d)) = 2
        /\ InvCalls(d)[2].method = StartRpc

\* C2: restart_process returns True only after exactly one
\* stopProcess(p, True) and then exactly one startProcess(p, True), both truthy.
C2_RestartTrueOnlyIfBoth ==
    \A c \in Callers :
        (Finished(c, "restart_process") /\ outcome[c].status = "returned")
        => /\ outcome[c].value = "True"
           /\ InvCalls(c) = <<Rpc(StopRpc, frame[c].name, "True"),
                              Rpc(StartRpc, frame[c].name, "True")>>
           /\ \A i \in 1..2 : InvCalls(c)[i].wait

C2_Witness ==
    \E c \in Callers :
        /\ Finished(c, "restart_process") /\ outcome[c].status = "returned"
        /\ Len(InvCalls(c)) = 2

\* C3: when the stop step succeeded and the start step failed, restart_process
\* raises what start_process raised and has issued nothing after that start:
\* the last RPC that succeeded in the invocation is the stop.
C3_StartFailurePropagates ==
    \A c \in Callers :
        (/\ Finished(c, "restart_process") /\ Len(InvCalls(c)) >= 2
         /\ Truthy(InvCalls(c)[1].resp) /\ ~Truthy(InvCalls(c)[2].resp))
        => /\ outcome[c].status = "raised"
           /\ outcome[c].exc = start_process(frame[c].name, InvCalls(c)[2].resp).exc
           /\ outcome[c].exc.origin = "start_process"
           /\ InvCalls(c) = <<Rpc(StopRpc, frame[c].name, InvCalls(c)[1].resp),
                              Rpc(StartRpc, frame[c].name, InvCalls(c)[2].resp)>>
           /\ \A i \in 1..Len(InvCalls(c)) :
                Truthy(InvCalls(c)[i].resp) => InvCalls(c)[i].method = StopRpc

C3_Witness ==
    \E c \in Callers :
        /\ Finished(c, "restart_process") /\ Len(InvCalls(c)) = 2
        /\ InvCalls(c)[1].resp = "True" /\ InvCalls(c)[2].resp = "OSError"
        /\ outcome[c].status = "raised"

\* C4 (as claimed): start_process, stop_process and restart_process of an
\* empty or None process_name raise the InvalidArgument kind and issue no RPC.
C4_InvalidNameIsInvalidArgument ==
    \A c \in Callers :
        (/\ pc[c] = "idle"
         /\ frame[c].op \in {"start_process", "stop_process", "restart_process"}
         /\ ~NonEmpty(frame[c].name))
        => /\ outcome[c].status = "raised"
           /\ Kind(outcome[c].exc) = "InvalidArgument"
           /\ InvCalls(c) = <<>>

\* C5: a ProtocolError with status 401 from the peer makes get_all_process_info,
\* start_process and stop_process raise the Unauthorized kind.
C5_AuthFailureIsUnauthorized ==
    \A c \in Callers :
        (/\ pc[c] = "idle"
         /\ frame[c].op \in {"get_all_process_info", "start_process", "stop_process"}
         /\ Len(InvCalls(c)) >= 1 /\ InvCalls(c)[1].resp = "ProtocolError401")
        => /\ outcome[c].status = "raised"
           /\ Kind(outcome[c].exc) = "Unauthorized"

C5_Witness ==
    \E c, d \in Callers :
        /\ Finished(c, "stop_process") /\ Len(InvCalls(c)) = 1
        /\ InvCalls(c)[1].resp = "ProtocolError401" /\ outcome[c].status = "raised"
        /\ Finished(d, "get_all_process_info") /\ Len(InvCalls(d)) = 1
        /\ InvCalls(d)[1].resp = "ProtocolError401" /\ outcome[d].status = "raised"

\* C6 (as claimed): a failure of the RPC that is no authentication failure (a
\* ProtocolError with another status, a connection error) raises MonitorError.
C6_OtherFailureIsMonitorError ==
    \A c \in Callers :
        (/\ pc[c] = "idle"
         /\ frame[c].op \in {"get_all_process_info", "start_process", "stop_process"}
         /\ Len(InvCalls(c)) >= 1
         /\ InvCalls(c)[1].resp \in {"ProtocolError500", "OSError"})
        => /\ outcome[c].status = "raised"
           /\ Kind(outcome[c].exc) = "MonitorError"

\* C7: for a non-empty name, start_process / stop_process raise MonitorError
\* when the RPC comes back falsy, and when it comes back truthy return it, that
\* one RPC being all they issued.
C7_FaultResultIsMonitorError ==
    \A c \in Callers :
        (/\ pc[c] = "idle" /\ frame[c].op \in {"start_process", "stop_process"}
         /\ NonEmpty(frame[c].name))
        => LET rpc == IF frame[c].op = "start_process" THEN StartRpc ELSE StopRpc
           IN  /\ Len(InvCalls(c)) = 1
               /\ InvCalls(c)[1].resp = "False"
                  => /\ outcome[c].status = "raised"
                     /\ Kind(outcome[c].exc) = "MonitorError"
               /\ InvCalls(c)[1].resp = "True"
                  => /\ outcome[c].status = "returned"
                     /\ Truthy(outcome[c].value)
                     /\ InvCalls(c) = <<Rpc(rpc, frame[c].name, "True")>>

C7_Witness ==
    \E c, d \in Callers :
        /\ Finished(c, "start_process") /\ NonEmpty(frame[c].name)
        /\ InvCalls(c)[1].resp = "False" /\ outcome[c].status = "raised"
        /\ Finished(d, "stop_process") /\ NonEmpty(frame[d].name)
        /\ InvCalls(d)[1].resp = "True" /\ outcome[d].status = "returned"

\* Construction was tried with four strings (the inputs of the construction
\* contract), none of them None.
AllStrings(args) ==
    /\ ~args.base_url.isNone /\ ~args.api_endpoint.isNone
    /\ ~args.api_user.isNone /\ ~args.api_pwd.isNone

BeginsWithScheme(s) ==
    \E k \in {7, 8} : Len(s) >= k /\ SubSeq(s, 1, k) \in {HTTP, HTTPS}

FirstFailing(args) ==
    IF args.base_url.str = <<>> THEN 1
    ELSE IF ~BeginsWithScheme(args.base_url.str) THEN 2
    ELSE IF args.api_endpoint.str = <<>> THEN 3
    ELSE IF args.api_user.str = <<>> THEN 4
    ELSE IF args.api_pwd.str = <<>> THEN 5
    ELSE 0

CheckMessages == <<MsgBaseUrl, MsgScheme, MsgEndpoint, MsgUser, MsgPwd>>

C10_ChannelUri ==
    ctor.phase = "ok"
    => /\ \E scheme \in {HTTP, HTTPS} :
            \E k \in 0..Len(ctor.args.base_url.str) :
                LET host_port == Slice(ctor.args.base_url.str, k)
                IN  /\ ctor.args.base_url.str = scheme \o host_port
                    /\ server = scheme \o ctor.args.api_user.str \o <<":">>
                                  \o ctor.args.api_pwd.str \o <<"@">>
                                  \o host_port \o ctor.args.api_endpoint.str
       /\ ctor.args.base_url.str =
              <<"h", "t", "t", "p", ":", "/", "/", "1", "0", ".", "0", ".", "0", ".", "5", ":", "9", "0", "0", "1">>
          => server = <<"h", "t", "t", "p", ":", "/", "/", "a", "d", "m", "i", "n", ":",
                        "s", "e", "c", "r", "e", "t", "@",
                        "1", "0", ".", "0", ".", "0", ".", "5", ":", "9", "0", "0", "1",
                        "/", "R", "P", "C", "2">>

C10_Witness ==
    /\ ctor.phase = "ok"
    /\ StartsWith(ctor.args.base_url.str, HTTPS)
    /\ Len(ctor.args.base_url.str) > 8
    /\ Len(server) > 0

\* ------------------------------------------------------- the bot's claims
ErrorHandlers == {"gamemanager_error", "restart_error", "status_error", "help_error"}
Handled == bpc = "idle" /\ command # NoWord
HoldsAny(roles) == roles \cap {StatusRole, RestartRole} # {}

\* The author lacks the role required by the group or by the subcommand.
AuthorUnauthorized ==
    \/ ~author_is_member
    \/ ~HoldsAny(author_roles)
    \/ subcommand_passed = "restart" /\ RestartRole \notin author_roles
    \/ subcommand_passed = "status" /\ StatusRole \notin author_roles

\* Unknown subcommand, or restart without a process name.
InvocationMalformed ==
    \/ subcommand_passed # NoWord /\ subcommand_passed \notin all_commands
    \/ subcommand_passed = "restart" /\ process_arg = NoWord

\* C11 (as claimed): every reply of the status and restart handlers is preceded
\* by the matching Monitor Client call: a status reply by a get_all_process_info
\* call, a restart reply by a restart_process call, and the "has been restarted
\* successfully" reply by a restart_process call that returned True.
C11_ReplyAfterMonitorCall ==
    \A i \in 1..Len(replies) :
        /\ replies[i][1] = "status"
           => \E c \in Callers : frame[c].op = "get_all_process_info"
        /\ replies[i][1] = "restart"
           => \E c \in Callers : frame[c].op = "restart_process"
        /\ replies[i] = <<"restart", Restarted>>
           => \E c \in Callers :
                /\ Finished(c, "restart_process")
                /\ outcome[c].status = "returned" /\ outcome[c].value = "True"

\* C12: the body of restart runs only for an author holding the restart role,
\* the body of status only for an author holding the status role, and no
\* gamemanager handler body (group, help, status, restart) runs for an author
\* holding neither role.
C12_HandlersBehindRoles ==
    /\ "restart" \in ran => (author_is_member /\ RestartRole \in author_roles)
    /\ "status" \in ran => (author_is_member /\ StatusRole \in author_roles)
    /\ ran # {} => (author_is_member /\ HoldsAny(author_roles))
    /\ ran \subseteq {"gamemanager", "help", "status", "restart"}

C12_Witness ==
    /\ Handled /\ "restart" \in ran
    /\ RestartRole \in author_roles /\ StatusRole \notin author_roles
    /\ replies = <<<<"restart", WillRestart>>, <<"restart", Restarted>>>>

\* C13 (as claimed): every unauthorized or malformed gamemanager invocation
\* ends with at least one message sent to the channel by an error handler.
C13_EveryRejectionAnswered ==
    (Handled /\ (AuthorUnauthorized \/ InvocationMalformed))
    => \E i \in 1..Len(replies) : replies[i][1] \in ErrorHandlers

\* ---------------------------------------------------- the client's claims
Levels(lg) == {lg[i] : i \in 1..Len(lg)}

\* C14 (as claimed): every failure raised to the caller is preceded, in the same
\* call, by a log record at the point of detection: critical for Unauthorized,
\* error for MonitorError and InvalidArgument, construction included.
C14_FailureLogged ==
    /\ ctor.phase = "failed" => "error" \in Levels(ctorLogs)
    /\ \A c \in Callers :
        (pc[c] = "idle" /\ outcome[c].status = "raised")
        => /\ Kind(outcome[c].exc) = "Unauthorized" => "critical" \in Levels(logs[c])
           /\ Kind(outcome[c].exc) \in {"MonitorError", "InvalidArgument"}
              => "error" \in Levels(logs[c])

\* C15: the client has no mutual exclusion between restart calls: while one
\* caller stands between its stopProcess(p) and its startProcess(p), any idle
\* caller can issue its own stopProcess(p) through restart_process(p).
C15_NoMutualExclusion ==
    \A c, d \in Callers :
        (c # d /\ pc[c] = "restart_start" /\ pc[d] = "idle")
        => ENABLED RestartStop(d, frame[c].name)

\* RPC order stop, stop, start, start of two restart_process calls of one name.
C15_Witness ==
    \E c, d \in Callers :
        /\ c # d /\ Len(wire) = 4
        /\ \A i \in 1..4 : wire[i].op = "restart_process" /\ wire[i].call.name = Str(<<"v">>)
        /\ wire[1].caller = c /\ wire[1].call.method = StopRpc
        /\ wire[2].caller = d /\ wire[2].call.method = StopRpc
        /\ wire[3].caller = c /\ wire[3].call.method = StartRpc
        /\ wire[4].caller = d /\ wire[4].call.method = StartRpc

====
